---- MODULE Spec2Model ----
(***************************************************************************)
(* A model of the configuration endpoint of LedFx (ledfx/api/config.py):   *)
(* the trimming validator, the PUT merge, the restart classifier and the   *)
(* backup / migrate / replace pipeline of POST and DELETE.                 *)
(*                                                                         *)
(* A configuration is a mapping (a function with a domain of strings).     *)
(* LiveConfig (self._ledfx.config) is one flat mapping: the core keys plus *)
(* the sub-mappings "audio", "melbanks" and "wled_preferences".            *)
(* One handler runs from the end of its `await request.json()` to its      *)
(* return without yielding to the event loop, so it is one action; the     *)
(* order of the effects inside it is kept in res.log.  SpecConc runs the   *)
(* same handlers statement by statement as tasks of the cooperative        *)
(* scheduler, which switches tasks at an await only.                       *)
(***************************************************************************)
EXTENDS Integers, Sequences, FiniteSets, TLC

VARIABLES cfg, audio, stopq, res, fn, tasks, running

vars == <<cfg, audio, stopq, res, fn, tasks, running>>

\* Scalar configuration values are 1..MaxVal.
MaxVal == 2
\* At most MaxStops stop callbacks wait in the event loop at a time.
MaxStops == 1
\* A fragment handed to the pure functions has at most MaxKeys keys.
MaxKeys == 2

(***************************************************************************)
(* Mappings                                                                *)
(***************************************************************************)
EmptyMap == [k \in {} |-> 0]

\* dict.update: the keys of e overwrite, the other keys of d stay.
Update(d, e) ==
    [k \in (DOMAIN d) \cup (DOMAIN e) |-> IF k \in DOMAIN e THEN e[k] ELSE d[k]]

\* d[key] = value
SetKey(d, key, value) ==
    [k \in (DOMAIN d) \cup {key} |-> IF k = key THEN value ELSE d[k]]

\* dict.pop(key, {}): the value popped, and the mapping left.
PopValue(d, key) == IF key \in DOMAIN d THEN d[key] ELSE EmptyMap
PopRest(d, key) == [k \in (DOMAIN d) \ {key} |-> d[k]]

\* A wled_preferences value is a scalar or a nested mapping.
Scalar(v) == [isMap |-> FALSE, v |-> v, m |-> EmptyMap]
Mapping(m) == [isMap |-> TRUE, v |-> 0, m |-> m]

(***************************************************************************)
(* The collaborators of ledfx.config / ledfx.api.utils / ledfx.effects:    *)
(* permitted keys, schemas, version parsing, migration.                    *)
(***************************************************************************)
SubKeys == {"audio", "melbanks", "wled_preferences"}

PERMITTED_KEYS ==
    [core |-> {"global_brightness", "scan_on_startup"},
     audio |-> {"min_volume", "pitch_method"},
     melbanks |-> {"max_frequencies"},
     wled_preferences |-> {"dev1", "dev2"}]

Nodes == DOMAIN PERMITTED_KEYS

CORE_CONFIG_KEYS_NO_RESTART == {"global_brightness"}

CONFIGURATION_VERSION == "2.0"

\* The tolerant version parser: a tag that does not parse counts as the
\* oldest version; "2.0" and "2.0.0" are the same version.
parse_version(tag) ==
    CASE tag = "2.0" -> 20
      [] tag = "2.0.0" -> 20
      [] tag = "1.0" -> 10
      [] OTHER -> 0

\* A schema coerces a scalar (Coerce) and then checks its range.
Coerce(v) == IF v < 0 THEN 0 - v ELSE v
ScalarOK(v) == Coerce(v) \in 1..MaxVal

NestedKeys == {"ip", "timeout"}

AUDIO_CONFIG_SCHEMA ==
    [kind |-> "scalar", known |-> {"min_volume"},
     defaults |-> [k \in {"min_volume"} |-> 1], allow_extra |-> TRUE]

ANALYSIS_CONFIG_SCHEMA ==
    [kind |-> "scalar", known |-> {"pitch_method"},
     defaults |-> [k \in {"pitch_method"} |-> 1], allow_extra |-> TRUE]

MELBANKS_CONFIG_SCHEMA ==
    [kind |-> "scalar", known |-> {"max_frequencies"},
     defaults |-> [k \in {"max_frequencies"} |-> 1], allow_extra |-> FALSE]

WLED_CONFIG_SCHEMA ==
    [kind |-> "wled", known |-> {"dev1", "dev2"},
     defaults |-> EmptyMap, allow_extra |-> FALSE]

CoreDefaults ==
    [k \in {"global_brightness", "scan_on_startup", "configuration_version"}
           \cup SubKeys |->
        CASE k = "configuration_version" -> CONFIGURATION_VERSION
          [] k \in SubKeys -> EmptyMap
          [] OTHER -> 1]

CORE_CONFIG_SCHEMA ==
    [kind |-> "core", known |-> DOMAIN CoreDefaults,
     defaults |-> CoreDefaults, allow_extra |-> TRUE]

\* Whether the schema accepts value v under its known key k.
ValueOK(schema, k, v) ==
    CASE schema.kind = "scalar" -> ScalarOK(v)
      [] schema.kind = "wled" ->
            IF v.isMap
            THEN /\ DOMAIN v.m \subseteq NestedKeys
                 /\ \A n \in DOMAIN v.m : ScalarOK(v.m[n])
            ELSE ScalarOK(v.v)
      [] OTHER -> (k \in SubKeys \cup {"configuration_version"}) \/ ScalarOK(v)

\* The schema's validated value for v under its known key k.
Validated(schema, k, v) ==
    CASE schema.kind = "scalar" -> Coerce(v)
      [] schema.kind = "wled" ->
            IF v.isMap
            THEN Mapping([n \in DOMAIN v.m |-> Coerce(v.m[n])])
            ELSE Scalar(Coerce(v.v))
      [] OTHER -> IF k \in SubKeys \cup {"configuration_version"}
                  THEN v ELSE Coerce(v)

\* schema(config): the validated and fully defaulted mapping, or a failure
\* (vol.MultipleInvalid).  A key the schema does not know is kept as it is
\* when the schema allows extra keys and is an error when it does not.
SchemaApply(schema, config) ==
    LET bad == {k \in DOMAIN config :
                   IF k \in schema.known
                   THEN ~ValueOK(schema, k, config[k])
                   ELSE ~schema.allow_extra}
        out == [k \in (DOMAIN config) \cup (DOMAIN schema.defaults) |->
                   IF k \in DOMAIN config
                   THEN IF k \in schema.known
                        THEN Validated(schema, k, config[k])
                        ELSE config[k]
                   ELSE schema.defaults[k]]
    IN  [ok |-> bad = {}, val |-> IF bad = {} THEN out ELSE EmptyMap]

\* migrate_config, when it succeeds: the configuration in the current shape,
\* tagged with the current version.
migrate_config(config) ==
    SetKey(config, "configuration_version", CONFIGURATION_VERSION)

(***************************************************************************)
(* validate_and_trim_config                                                *)
(***************************************************************************)
\* validate_and_trim_config with an unknown key dropped instead of refused.
validate_and_trim_config_drop(config, schema, node) ==
    LET kept == [key \in {k \in DOMAIN config :
                             k \in PERMITTED_KEYS[node] \/ k = "user_presets"}
                    |-> config[key]]
        validated_config == SchemaApply(schema, kept)
    IN  IF ~validated_config.ok
        THEN [err |-> "MultipleInvalid", val |-> EmptyMap]
        ELSE [err |-> "none",
              val |-> [key \in DOMAIN kept |-> validated_config.val[key]]]

\* validate_and_trim_config without the trim: the schema's whole output.
validate_and_trim_config_notrim(config, schema, node) ==
    IF \E key \in DOMAIN config :
           key \notin PERMITTED_KEYS[node] /\ key # "user_presets"
    THEN [err |-> "KeyError", val |-> EmptyMap]
    ELSE LET validated_config == SchemaApply(schema, config)
         IN  IF ~validated_config.ok
             THEN [err |-> "MultipleInvalid", val |-> EmptyMap]
             ELSE [err |-> "none", val |-> validated_config.val]

validate_and_trim_config(config, schema, node) ==
    IF \E key \in DOMAIN config :
           key \notin PERMITTED_KEYS[node] /\ key # "user_presets"
    THEN [err |-> "KeyError", val |-> EmptyMap]
    ELSE LET validated_config == SchemaApply(schema, config)
         IN  IF ~validated_config.ok
             THEN [err |-> "MultipleInvalid", val |-> EmptyMap]
             ELSE IF ~(DOMAIN config \subseteq DOMAIN validated_config.val)
             THEN [err |-> "KeyError", val |-> EmptyMap]
             ELSE [err |-> "none",
                   val |-> [key \in DOMAIN config |-> validated_config.val[key]]]

(***************************************************************************)
(* ConfigEndpoint.check_need_restart                                       *)
(***************************************************************************)
\* check_need_restart asking for every key to be exempt, not any key.
check_need_restart_all(config) ==
    LET core_config == validate_and_trim_config(config, CORE_CONFIG_SCHEMA, "core")
    IN  IF core_config.err # "none"
        THEN [err |-> core_config.err, val |-> FALSE]
        ELSE IF DOMAIN core_config.val = {}
        THEN [err |-> "none", val |-> FALSE]
        ELSE [err |-> "none",
              val |-> ~(\A key \in DOMAIN core_config.val :
                           key \in CORE_CONFIG_KEYS_NO_RESTART)]

check_need_restart(config) ==
    LET core_config == validate_and_trim_config(config, CORE_CONFIG_SCHEMA, "core")
    IN  IF core_config.err # "none"
        THEN [err |-> core_config.err, val |-> FALSE]
        ELSE IF DOMAIN core_config.val = {}
        THEN [err |-> "none", val |-> FALSE]
        ELSE [err |-> "none",
              val |-> ~(\E key \in CORE_CONFIG_KEYS_NO_RESTART :
                           key \in DOMAIN core_config.val)]

(***************************************************************************)
(* ConfigEndpoint.update_config                                            *)
(***************************************************************************)
\* The loop over wled_config (lines 256-262), in the order of its keys:
\* a key already in live wled_preferences has its value .update()d, which
\* raises when either value is no mapping; a new key is set.
RECURSIVE wled_merge(_, _, _)
wled_merge(live, wled_config, order) ==
    IF order = <<>>
    THEN [err |-> "none", val |-> live]
    ELSE LET key == Head(order)
         IN  IF key \in DOMAIN live
             THEN IF ~live[key].isMap
                  THEN [err |-> "AttributeError", val |-> live]
                  ELSE IF ~wled_config[key].isMap
                  THEN [err |-> "TypeError", val |-> live]
                  ELSE wled_merge(
                           SetKey(live, key,
                                  Mapping(Update(live[key].m, wled_config[key].m))),
                           wled_config, Tail(order))
             ELSE wled_merge(SetKey(live, key, wled_config[key]),
                             wled_config, Tail(order))

\* What update_config returns to put: the exception raised ("none" when it
\* returned), LiveConfig as it left it, the effects in order, and the request
\* mapping as the pops left it.
UpdateResult(err, c, log, rest) == [err |-> err, cfg |-> c, log |-> log, rest |-> rest]

\* apply_update with the audio and melbanks sub-mappings replaced by their
\* fragments instead of updated with them.
apply_update_replace(c, audio_config, wled_config, melbanks_config, core_config, rest, order, aud) ==
    LET c1 == SetKey(c, "audio", audio_config)
        c2 == SetKey(c1, "melbanks", melbanks_config)
        c3 == Update(c2, core_config)
        w  == wled_merge(c3["wled_preferences"], wled_config, order)
        c4 == SetKey(c3, "wled_preferences", w.val)
        log1 == <<"merge">>
        log2 == IF aud = "active" /\ DOMAIN audio_config # {}
                THEN Append(log1, "audio.update_config") ELSE log1
        log3 == IF aud # "unset" /\ DOMAIN melbanks_config # {}
                THEN Append(log2, "melbanks.update_config") ELSE log2
        log4 == IF DOMAIN core_config # {}
                THEN Append(log3, "BaseConfigUpdateEvent") ELSE log3
    IN  IF w.err # "none"
        THEN UpdateResult(w.err, c4, log1, rest)
        ELSE IF aud = "none" /\ DOMAIN melbanks_config # {}
        THEN UpdateResult("AttributeError", c4, log2, rest)
        ELSE UpdateResult("none", c4, log4, rest)

\* Lines 251-277: the merges and the notifications, all fragments validated.
apply_update(c, audio_config, wled_config, melbanks_config, core_config, rest, order, aud) ==
    LET c1 == SetKey(c, "audio", Update(c["audio"], audio_config))
        c2 == SetKey(c1, "melbanks", Update(c1["melbanks"], melbanks_config))
        c3 == Update(c2, core_config)
        w  == wled_merge(c3["wled_preferences"], wled_config, order)
        c4 == SetKey(c3, "wled_preferences", w.val)
        log1 == <<"merge">>
        log2 == IF aud = "active" /\ DOMAIN audio_config # {}
                THEN Append(log1, "audio.update_config") ELSE log1
        log3 == IF aud # "unset" /\ DOMAIN melbanks_config # {}
                THEN Append(log2, "melbanks.update_config") ELSE log2
        log4 == IF DOMAIN core_config # {}
                THEN Append(log3, "BaseConfigUpdateEvent") ELSE log3
    IN  IF w.err # "none"
        THEN UpdateResult(w.err, c4, log1, rest)
        ELSE IF aud = "none" /\ DOMAIN melbanks_config # {}
        THEN UpdateResult("AttributeError", c4, log2, rest)
        ELSE UpdateResult("none", c4, log4, rest)

\* update_config with each fragment merged as soon as it is validated.
update_config_eager(c, config, order, aud) ==
    LET audio1 == validate_and_trim_config(
                      PopValue(config, "audio"), AUDIO_CONFIG_SCHEMA, "audio")
        c1     == SetKey(c, "audio", Update(c["audio"], audio1.val))
        rest1  == PopRest(config, "audio")
        wled   == validate_and_trim_config(
                      PopValue(rest1, "wled_preferences"),
                      WLED_CONFIG_SCHEMA, "wled_preferences")
        rest2  == PopRest(rest1, "wled_preferences")
        melb   == validate_and_trim_config(
                      PopValue(rest2, "melbanks"), MELBANKS_CONFIG_SCHEMA, "melbanks")
        c2     == SetKey(c1, "melbanks", Update(c1["melbanks"], melb.val))
        rest3  == PopRest(rest2, "melbanks")
        core   == validate_and_trim_config(rest3, CORE_CONFIG_SCHEMA, "core")
    IN  IF audio1.err # "none" THEN UpdateResult(audio1.err, c, <<>>, config)
        ELSE IF wled.err # "none" THEN UpdateResult(wled.err, c1, <<>>, rest2)
        ELSE IF melb.err # "none" THEN UpdateResult(melb.err, c1, <<>>, rest3)
        ELSE IF core.err # "none" THEN UpdateResult(core.err, c2, <<>>, rest3)
        ELSE apply_update(c, audio1.val, wled.val, melb.val, core.val,
                          rest3, order, aud)

update_config(c, config, order, aud) ==
    LET audio1 == validate_and_trim_config(
                      PopValue(config, "audio"), AUDIO_CONFIG_SCHEMA, "audio")
        audio2 == validate_and_trim_config(
                      audio1.val, ANALYSIS_CONFIG_SCHEMA, "audio")
        rest1  == PopRest(config, "audio")
        wled   == validate_and_trim_config(
                      PopValue(rest1, "wled_preferences"),
                      WLED_CONFIG_SCHEMA, "wled_preferences")
        rest2  == PopRest(rest1, "wled_preferences")
        melb   == validate_and_trim_config(
                      PopValue(rest2, "melbanks"), MELBANKS_CONFIG_SCHEMA, "melbanks")
        rest3  == PopRest(rest2, "melbanks")
        core   == validate_and_trim_config(rest3, CORE_CONFIG_SCHEMA, "core")
    IN  IF audio1.err # "none" THEN UpdateResult(audio1.err, c, <<>>, config)
        ELSE IF audio2.err # "none" THEN UpdateResult(audio2.err, c, <<>>, rest1)
        ELSE IF wled.err # "none" THEN UpdateResult(wled.err, c, <<>>, rest2)
        ELSE IF melb.err # "none" THEN UpdateResult(melb.err, c, <<>>, rest3)
        ELSE IF core.err # "none" THEN UpdateResult(core.err, c, <<>>, rest3)
        ELSE apply_update(c, audio2.val, wled.val, melb.val, core.val,
                          rest3, order, aud)

(***************************************************************************)
(* The handlers.  Each yields the state it leaves and what it answered.    *)
(***************************************************************************)
Outcome(c, q, status, error, log) ==
    [cfg |-> c, stopq |-> q, status |-> status, error |-> error, log |-> log]

\* put with the stop callback queued before the response is built.
put_stop_first(c, q, config, malformed, order, aud, saveOk) ==
    IF malformed
    THEN Outcome(c, q, "json_decode_error", "JSONDecodeError", <<>>)
    ELSE
    LET u == update_config(c, config, order, aud)
        log1 == Append(u.log, "BaseConfigUpdateEvent")
        log2 == Append(log1, "save_config")
        need_restart == check_need_restart(u.rest)
    IN  IF u.err \in {"KeyError", "MultipleInvalid"}
        THEN Outcome(u.cfg, q, "invalid_request", u.err, u.log)
        ELSE IF u.err # "none"
        THEN Outcome(u.cfg, q, "internal_error", u.err, u.log)
        ELSE IF ~saveOk
        THEN Outcome(u.cfg, q, "internal_error", "OSError",
                     Append(log1, "save_config failed"))
        ELSE IF need_restart.err # "none"
        THEN Outcome(u.cfg, q, "invalid_request", need_restart.err, log2)
        ELSE IF need_restart.val
        THEN Outcome(u.cfg, q + 1, "success", "none",
                     log2 \o <<"call_soon_threadsafe(stop)", "request_success">>)
        ELSE Outcome(u.cfg, q, "success", "none",
                     Append(log2, "request_success"))

\* put with a failure of save_config swallowed: the answer is success.
put_save_swallowed(c, q, config, malformed, order, aud, saveOk) ==
    IF malformed
    THEN Outcome(c, q, "json_decode_error", "JSONDecodeError", <<>>)
    ELSE
    LET u == update_config(c, config, order, aud)
        log1 == Append(u.log, "BaseConfigUpdateEvent")
        log2 == Append(log1, "save_config")
        need_restart == check_need_restart(u.rest)
    IN  IF u.err \in {"KeyError", "MultipleInvalid"}
        THEN Outcome(u.cfg, q, "invalid_request", u.err, u.log)
        ELSE IF u.err # "none"
        THEN Outcome(u.cfg, q, "internal_error", u.err, u.log)
        ELSE IF ~saveOk
        THEN Outcome(u.cfg, q, "success", "none",
                     log1 \o <<"save_config failed", "request_success">>)
        ELSE IF need_restart.err # "none"
        THEN Outcome(u.cfg, q, "invalid_request", need_restart.err, log2)
        ELSE IF need_restart.val
        THEN Outcome(u.cfg, q + 1, "success", "none",
                     log2 \o <<"request_success", "call_soon_threadsafe(stop)">>)
        ELSE Outcome(u.cfg, q, "success", "none",
                     Append(log2, "request_success"))

\* put with the restart decided on the request as it arrived, the audio,
\* wled_preferences and melbanks sub-mappings still in it.
put_restart_unpopped(c, q, config, malformed, order, aud, saveOk) ==
    IF malformed
    THEN Outcome(c, q, "json_decode_error", "JSONDecodeError", <<>>)
    ELSE
    LET u == update_config(c, config, order, aud)
        log1 == Append(u.log, "BaseConfigUpdateEvent")
        log2 == Append(log1, "save_config")
        need_restart == check_need_restart(config)
    IN  IF u.err \in {"KeyError", "MultipleInvalid"}
        THEN Outcome(u.cfg, q, "invalid_request", u.err, u.log)
        ELSE IF u.err # "none"
        THEN Outcome(u.cfg, q, "internal_error", u.err, u.log)
        ELSE IF ~saveOk
        THEN Outcome(u.cfg, q, "internal_error", "OSError",
                     Append(log1, "save_config failed"))
        ELSE IF need_restart.err # "none"
        THEN Outcome(u.cfg, q, "invalid_request", need_restart.err, log2)
        ELSE IF need_restart.val
        THEN Outcome(u.cfg, q + 1, "success", "none",
                     log2 \o <<"request_success", "call_soon_threadsafe(stop)">>)
        ELSE Outcome(u.cfg, q, "success", "none",
                     Append(log2, "request_success"))

\* ConfigEndpoint.put, after request.json() returned `config` (or raised
\* JSONDecodeError: malformed).
put(c, q, config, malformed, order, aud, saveOk) ==
    IF malformed
    THEN Outcome(c, q, "json_decode_error", "JSONDecodeError", <<>>)
    ELSE
    LET u == update_config(c, config, order, aud)
        log1 == Append(u.log, "BaseConfigUpdateEvent")
        log2 == Append(log1, "save_config")
        need_restart == check_need_restart(u.rest)
    IN  IF u.err \in {"KeyError", "MultipleInvalid"}
        THEN Outcome(u.cfg, q, "invalid_request", u.err, u.log)
        ELSE IF u.err # "none"
        THEN Outcome(u.cfg, q, "internal_error", u.err, u.log)
        ELSE IF ~saveOk
        THEN Outcome(u.cfg, q, "internal_error", "OSError",
                     Append(log1, "save_config failed"))
        ELSE IF need_restart.err # "none"
        THEN Outcome(u.cfg, q, "invalid_request", need_restart.err, log2)
        ELSE IF need_restart.val
        THEN Outcome(u.cfg, q + 1, "success", "none",
                     log2 \o <<"request_success", "call_soon_threadsafe(stop)">>)
        ELSE Outcome(u.cfg, q, "success", "none",
                     Append(log2, "request_success"))

\* Lines 139-154 of post: the four schemas applied in full (no trimming) and
\* the normalized configuration assembled.
normalize(config) ==
    LET audio_config    == SchemaApply(AUDIO_CONFIG_SCHEMA, PopValue(config, "audio"))
        rest1           == PopRest(config, "audio")
        wled_config     == SchemaApply(WLED_CONFIG_SCHEMA,
                                       PopValue(rest1, "wled_preferences"))
        rest2           == PopRest(rest1, "wled_preferences")
        melbanks_config == SchemaApply(MELBANKS_CONFIG_SCHEMA,
                                       PopValue(rest2, "melbanks"))
        rest3           == PopRest(rest2, "melbanks")
        core_config     == SchemaApply(CORE_CONFIG_SCHEMA, rest3)
    IN  IF audio_config.ok /\ wled_config.ok /\ melbanks_config.ok /\ core_config.ok
        THEN [ok |-> TRUE,
              val |-> SetKey(SetKey(SetKey(core_config.val,
                          "audio", audio_config.val),
                          "wled_preferences", wled_config.val),
                          "melbanks", melbanks_config.val)]
        ELSE [ok |-> FALSE, val |-> EmptyMap]

\* needs_migration comparing the tags as they are written, unparsed.
needs_migration_raw(config) ==
    \/ "configuration_version" \notin DOMAIN config
    \/ config["configuration_version"] # CONFIGURATION_VERSION

\* Lines 120-124 of post: the tag is missing or is another version.
needs_migration(config) ==
    \/ "configuration_version" \notin DOMAIN config
    \/ parse_version(config["configuration_version"])
           # parse_version(CONFIGURATION_VERSION)

\* post with the backup taken before the version is looked at.
post_backup_first(c, q, body, malformed, migOk, backupOk, saveOk) ==
    IF malformed
    THEN Outcome(c, q, "json_decode_error", "JSONDecodeError", <<>>)
    ELSE
    LET mig    == needs_migration(body)
        log0   == <<"create_backup">>
        config == IF mig THEN migrate_config(body) ELSE body
        log1   == IF mig THEN Append(log0, "migrate_config") ELSE log0
        n      == normalize(config)
        log2   == Append(log1, "replace")
        log3   == Append(log2, "save_config")
    IN  IF ~backupOk
        THEN Outcome(c, q, "unhandled", "OSError", <<"create_backup failed">>)
        ELSE IF mig /\ ~migOk
        THEN Outcome(c, q, "internal_error", "migration",
                     Append(log0, "migrate_config failed"))
        ELSE IF ~n.ok
        THEN Outcome(c, q, "internal_error", "MultipleInvalid", log1)
        ELSE IF ~saveOk
        THEN Outcome(n.val, q, "unhandled", "OSError",
                     Append(log2, "save_config failed"))
        ELSE Outcome(n.val, q + 1, "success", "none",
                     log3 \o <<"call_soon_threadsafe(stop)", "request_success">>)

\* post with LiveConfig assigned before the schemas are applied.
post_replace_early(c, q, body, malformed, migOk, backupOk, saveOk) ==
    IF malformed
    THEN Outcome(c, q, "json_decode_error", "JSONDecodeError", <<>>)
    ELSE
    LET mig    == needs_migration(body)
        log0   == IF mig THEN <<"migrate_config">> ELSE <<>>
        config == IF mig THEN migrate_config(body) ELSE body
        log1   == Append(log0, "create_backup")
        n      == normalize(config)
        log2   == Append(log1, "replace")
        log3   == Append(log2, "save_config")
    IN  IF mig /\ ~migOk
        THEN Outcome(c, q, "internal_error", "migration",
                     <<"migrate_config failed">>)
        ELSE IF ~backupOk
        THEN Outcome(c, q, "unhandled", "OSError",
                     Append(log0, "create_backup failed"))
        ELSE IF ~n.ok
        THEN Outcome(config, q, "internal_error", "MultipleInvalid",
                     Append(log1, "replace"))
        ELSE IF ~saveOk
        THEN Outcome(n.val, q, "unhandled", "OSError",
                     Append(log2, "save_config failed"))
        ELSE Outcome(n.val, q + 1, "success", "none",
                     log3 \o <<"call_soon_threadsafe(stop)", "request_success">>)

\* post with the devices of the previous wled_preferences kept.
post_keep_wled(c, q, body, malformed, migOk, backupOk, saveOk) ==
    IF malformed
    THEN Outcome(c, q, "json_decode_error", "JSONDecodeError", <<>>)
    ELSE
    LET mig    == needs_migration(body)
        log0   == IF mig THEN <<"migrate_config">> ELSE <<>>
        config == IF mig THEN migrate_config(body) ELSE body
        log1   == Append(log0, "create_backup")
        n0     == normalize(config)
        n      == [ok |-> n0.ok,
                   val |-> IF n0.ok
                           THEN SetKey(n0.val, "wled_preferences",
                                       Update(c["wled_preferences"],
                                              n0.val["wled_preferences"]))
                           ELSE EmptyMap]
        log2   == Append(log1, "replace")
        log3   == Append(log2, "save_config")
    IN  IF mig /\ ~migOk
        THEN Outcome(c, q, "internal_error", "migration",
                     <<"migrate_config failed">>)
        ELSE IF ~backupOk
        THEN Outcome(c, q, "unhandled", "OSError",
                     Append(log0, "create_backup failed"))
        ELSE IF ~n.ok
        THEN Outcome(c, q, "internal_error", "MultipleInvalid", log1)
        ELSE IF ~saveOk
        THEN Outcome(n.val, q, "unhandled", "OSError",
                     Append(log2, "save_config failed"))
        ELSE Outcome(n.val, q + 1, "success", "none",
                     log3 \o <<"call_soon_threadsafe(stop)", "request_success">>)

\* ConfigEndpoint.post.  An exception that no except clause of post catches
\* (create_backup or save_config raising) leaves the handler: "unhandled".
post(c, q, body, malformed, migOk, backupOk, saveOk) ==
    IF malformed
    THEN Outcome(c, q, "json_decode_error", "JSONDecodeError", <<>>)
    ELSE
    LET mig    == needs_migration(body)
        log0   == IF mig THEN <<"migrate_config">> ELSE <<>>
        config == IF mig THEN migrate_config(body) ELSE body
        log1   == Append(log0, "create_backup")
        n      == normalize(config)
        log2   == Append(log1, "replace")
        log3   == Append(log2, "save_config")
    IN  IF mig /\ ~migOk
        THEN Outcome(c, q, "internal_error", "migration",
                     <<"migrate_config failed">>)
        ELSE IF ~backupOk
        THEN Outcome(c, q, "unhandled", "OSError",
                     Append(log0, "create_backup failed"))
        ELSE IF ~n.ok
        THEN Outcome(c, q, "internal_error", "MultipleInvalid", log1)
        ELSE IF ~saveOk
        THEN Outcome(n.val, q, "unhandled", "OSError",
                     Append(log2, "save_config failed"))
        ELSE Outcome(n.val, q + 1, "success", "none",
                     log3 \o <<"call_soon_threadsafe(stop)", "request_success">>)

\* delete with LiveConfig replaced before the backup is taken.
delete_replace_first(c, q, backupOk, saveOk) ==
    LET defaults == SchemaApply(CORE_CONFIG_SCHEMA, EmptyMap).val
    IN  IF ~backupOk
        THEN Outcome(defaults, q, "unhandled", "OSError",
                     <<"replace", "create_backup failed">>)
        ELSE IF ~saveOk
        THEN Outcome(defaults, q, "unhandled", "OSError",
                     <<"replace", "create_backup", "save_config failed">>)
        ELSE Outcome(defaults, q + 1, "success", "none",
                     <<"replace", "create_backup", "save_config",
                       "call_soon_threadsafe(stop)", "request_success">>)

\* delete with the stop callback queued before save_config is called.
delete_stop_before_save(c, q, backupOk, saveOk) ==
    LET defaults == SchemaApply(CORE_CONFIG_SCHEMA, EmptyMap).val
    IN  IF ~backupOk
        THEN Outcome(c, q, "unhandled", "OSError", <<"create_backup failed">>)
        ELSE IF ~saveOk
        THEN Outcome(defaults, q + 1, "unhandled", "OSError",
                     <<"create_backup", "replace", "call_soon_threadsafe(stop)",
                       "save_config failed">>)
        ELSE Outcome(defaults, q + 1, "success", "none",
                     <<"create_backup", "replace", "call_soon_threadsafe(stop)",
                       "save_config", "request_success">>)

\* ConfigEndpoint.delete
delete(c, q, backupOk, saveOk) ==
    LET defaults == SchemaApply(CORE_CONFIG_SCHEMA, EmptyMap).val
    IN  IF ~backupOk
        THEN Outcome(c, q, "unhandled", "OSError", <<"create_backup failed">>)
        ELSE IF ~saveOk
        THEN Outcome(defaults, q, "unhandled", "OSError",
                     <<"create_backup", "replace", "save_config failed">>)
        ELSE Outcome(defaults, q + 1, "success", "none",
                     <<"create_backup", "replace", "save_config",
                       "call_soon_threadsafe(stop)", "request_success">>)

\* Line 25: the keys of the core schema.
CORE_CONFIG_KEYS == CORE_CONFIG_SCHEMA.known

\* get_entry without the schema: the stored fragment as it is.
get_entry_raw(c, key) == [ok |-> key \in DOMAIN c, val |-> PopValue(c, key)]

\* Lines 74-83 of get: the stored value of the key, with the schema of audio,
\* melbanks or wled_preferences applied to it.
get_entry(c, key) ==
    CASE key = "audio" -> SchemaApply(AUDIO_CONFIG_SCHEMA, PopValue(c, key))
      [] key = "melbanks" -> SchemaApply(MELBANKS_CONFIG_SCHEMA, PopValue(c, key))
      [] key = "wled_preferences" -> SchemaApply(WLED_CONFIG_SCHEMA, PopValue(c, key))
      [] OTHER -> [ok |-> key \in DOMAIN c, val |-> PopValue(c, key)]

\* ConfigEndpoint.get.  kind is what the request carries: "none" (no body),
\* "malformed", "list" or "str" (wanted holds the names), "other" (a body
\* that is neither a list nor a string).
get(c, kind, wanted) ==
    IF kind = "malformed"
    THEN [status |-> "json_decode_error", response |-> EmptyMap]
    ELSE
    LET keys0 == IF kind \in {"list", "str"}
                 THEN wanted \cap CORE_CONFIG_KEYS ELSE {}
        keys  == IF keys0 = {} THEN CORE_CONFIG_KEYS ELSE keys0
    IN  IF \E key \in keys : ~get_entry(c, key).ok
        THEN [status |-> "unhandled", response |-> EmptyMap]
        ELSE [status |-> "success",
              response |-> [key \in keys |-> get_entry(c, key).val]]

(***************************************************************************)
(* Requests                                                                *)
(***************************************************************************)
\* The scalars a request carries: -1 is coerced to 1, 0 is out of range.
InVals == {-1, 0} \cup 1..MaxVal

One(k, v) == [x \in {k} |-> v]

\* The request mapping that carries fragment f for namespace ns.
Carry(ns, f) == IF ns = "core" THEN f ELSE One(ns, f)

\* Fragments every schema accepts, by namespace.
GoodFrags(ns) ==
    CASE ns = "audio" -> {One("min_volume", v) : v \in {-1, MaxVal}}
      [] ns = "melbanks" -> {One("max_frequencies", v) : v \in {-1, MaxVal}}
      [] ns = "wled_preferences" ->
            {One("dev1", Mapping(One("ip", 1))),
             One("dev1", Mapping(One("ip", MaxVal))),
             One("dev1", Mapping(One("timeout", 1))),
             One("dev2", Scalar(1)),
             One("dev2", Scalar(MaxVal)),
             Update(One("dev1", Mapping(One("ip", MaxVal))), One("dev2", Scalar(1)))}
      [] OTHER ->
            {One("global_brightness", v) : v \in {-1, MaxVal}}
            \cup {One("scan_on_startup", v) : v \in {-1, MaxVal}}
            \cup {Update(One("global_brightness", MaxVal),
                         One("scan_on_startup", MaxVal))}

\* Fragments with a key that is not permitted or a value out of range.
BadFrags(ns) ==
    CASE ns = "audio" -> {One("min_volume", 0), One("bogus", 1)}
      [] ns = "melbanks" -> {One("max_frequencies", 0)}
      [] ns = "wled_preferences" -> {One("dev1", Mapping(One("ip", 0)))}
      [] OTHER -> {One("scan_on_startup", 0), One("bogus", 1)}

\* The fragment that stands for its namespace beside a fragment of another.
FirstOf(ns) ==
    CASE ns = "audio" -> One("min_volume", MaxVal)
      [] ns = "melbanks" -> One("max_frequencies", MaxVal)
      [] ns = "wled_preferences" -> One("dev1", Mapping(One("ip", MaxVal)))
      [] OTHER -> One("scan_on_startup", MaxVal)

\* The PUT requests: empty; one namespace; the first fragment of one namespace
\* beside the first or a bad fragment of another; all four namespaces.
PutBodies ==
    {EmptyMap}
    \cup UNION {{Carry(ns, f) : f \in GoodFrags(ns) \cup BadFrags(ns)} : ns \in Nodes}
    \cup UNION {{Update(Carry(p[1], FirstOf(p[1])), Carry(p[2], f)) :
                    f \in BadFrags(p[2]) \cup {FirstOf(p[2])}} :
                   p \in {q \in Nodes \X Nodes : q[1] # q[2]}}
    \cup {Update(Update(Carry("audio", FirstOf("audio")),
                        Carry("melbanks", FirstOf("melbanks"))),
                 Update(Carry("wled_preferences", FirstOf("wled_preferences")),
                        FirstOf("core")))}

Tagged(c, t) == SetKey(c, "configuration_version", t)

\* The POST requests: a configuration, with a version tag or without one.
PostBodies ==
    {EmptyMap,
     Tagged(EmptyMap, "1.0"),
     Tagged(EmptyMap, "junk"),
     Tagged(EmptyMap, CONFIGURATION_VERSION),
     Tagged(EmptyMap, "2.0.0"),
     Tagged(One("scan_on_startup", 0), "2.0.0"),
     Tagged(Carry("melbanks", One("max_frequencies", 0)), "1.0"),
     Tagged(Update(One("global_brightness", MaxVal),
                   Carry("audio", One("min_volume", MaxVal))),
            CONFIGURATION_VERSION),
     Tagged(Carry("wled_preferences",
                  One("dev1", Mapping(Update(One("ip", 1), One("timeout", 1))))),
            CONFIGURATION_VERSION)}

\* The GET requests.
GetRequests ==
    {[kind |-> "none", wanted |-> {}],
     [kind |-> "malformed", wanted |-> {}],
     [kind |-> "other", wanted |-> {}],
     [kind |-> "str", wanted |-> {"audio"}],
     [kind |-> "str", wanted |-> {"bogus"}],
     [kind |-> "list", wanted |-> {}],
     [kind |-> "list", wanted |-> {"audio", "melbanks"}],
     [kind |-> "list", wanted |-> {"wled_preferences", "bogus"}],
     [kind |-> "list", wanted |-> {"global_brightness", "scan_on_startup"}]}

\* Every order in which a loop can meet the keys of S.
Orders(S) ==
    {o \in [1..Cardinality(S) -> S] : \A k \in S : \E i \in DOMAIN o : o[i] = k}

(***************************************************************************)
(* State                                                                   *)
(***************************************************************************)
\* No handler has answered since the last reply went out.
Idle ==
    [method |-> "none", body |-> EmptyMap, pre |-> EmptyMap, status |-> "none",
     error |-> "none", log |-> <<>>, kind |-> "none", wanted |-> {},
     response |-> EmptyMap]

\* No pure function is being applied.
FnIdle ==
    [pc |-> "idle", op |-> "none", node |-> "core", schema |-> "CORE_CONFIG_SCHEMA",
     config |-> EmptyMap, err |-> "none", val |-> EmptyMap, flag |-> FALSE]

\* The tasks of the scheduler: two PUT handlers and a GET handler.
Writers == {"put1", "put2"}
Readers == {"get1"}
Tasks == Writers \cup Readers
MethodOf(t) == IF t \in Writers THEN "PUT" ELSE "GET"

\* A task that waits for its request at the first await of its handler.
NewTask ==
    [pc |-> "request.json", body |-> EmptyMap, order |-> <<>>, todo |-> {},
     seen |-> EmptyMap]

NoTasks == [t \in Tasks |-> NewTask]

Init ==
    /\ cfg = SchemaApply(CORE_CONFIG_SCHEMA, EmptyMap).val
    /\ audio \in {"unset", "none"}
    /\ stopq = 0
    /\ res = Idle
    /\ fn = FnIdle
    /\ tasks = NoTasks
    /\ running = "none"

\* The state a handler leaves, and its answer in res.
Leave(method, body, o) ==
    /\ o.stopq <= MaxStops
    /\ cfg' = o.cfg
    /\ stopq' = o.stopq
    /\ res' = [Idle EXCEPT !.method = method, !.body = body, !.pre = cfg,
                            !.status = o.status, !.error = o.error, !.log = o.log]
    /\ UNCHANGED <<audio, fn, tasks, running>>

Put ==
    /\ res = Idle
    /\ \E config \in PutBodies, malformed \in BOOLEAN, saveOk \in BOOLEAN :
         /\ malformed => (config = EmptyMap /\ saveOk)
         /\ \E order \in Orders(DOMAIN PopValue(config, "wled_preferences")) :
              Leave("PUT", config,
                    put(cfg, stopq, config, malformed, order, audio, saveOk))

Post ==
    /\ res = Idle
    /\ \E body \in PostBodies, malformed \in BOOLEAN,
          migOk \in BOOLEAN, backupOk \in BOOLEAN, saveOk \in BOOLEAN :
         /\ malformed => (body = EmptyMap /\ migOk /\ backupOk /\ saveOk)
         /\ Leave("POST", body,
                  post(cfg, stopq, body, malformed, migOk, backupOk, saveOk))

Delete ==
    /\ res = Idle
    /\ \E backupOk \in BOOLEAN, saveOk \in BOOLEAN :
         Leave("DELETE", EmptyMap, delete(cfg, stopq, backupOk, saveOk))

Get ==
    /\ res = Idle
    /\ \E request \in GetRequests :
         LET o == get(cfg, request.kind, request.wanted)
         IN  res' = [Idle EXCEPT !.method = "GET", !.pre = cfg, !.status = o.status,
                                 !.kind = request.kind, !.wanted = request.wanted,
                                 !.response = o.response]
    /\ UNCHANGED <<cfg, audio, stopq, fn, tasks, running>>

\* The response goes out and the handler's frame is gone.
Reply ==
    /\ res # Idle
    /\ res' = Idle
    /\ UNCHANGED <<cfg, audio, stopq, fn, tasks, running>>

\* The event loop runs a stop callback that call_soon_threadsafe queued.
RunStop ==
    /\ stopq > 0
    /\ stopq' = stopq - 1
    /\ UNCHANGED <<cfg, audio, res, fn, tasks, running>>

\* The audio subsystem (self._ledfx.audio) is activated or torn down.
AudioStart ==
    /\ audio # "active"
    /\ audio' = "active"
    /\ UNCHANGED <<cfg, stopq, res, fn, tasks, running>>

AudioStop ==
    /\ audio = "active"
    /\ audio' = "none"
    /\ UNCHANGED <<cfg, stopq, res, fn, tasks, running>>

Next == Get \/ Put \/ Post \/ Delete \/ Reply \/ RunStop \/ AudioStart \/ AudioStop

Spec == Init /\ [][Next]_vars

(***************************************************************************)
(* The pure functions on their own: validate_and_trim_config and           *)
(* check_need_restart applied to every fragment of at most MaxKeys keys.   *)
(***************************************************************************)
SchemaNamed(name) ==
    CASE name = "AUDIO_CONFIG_SCHEMA" -> AUDIO_CONFIG_SCHEMA
      [] name = "AudioAnalysisSource.CONFIG_SCHEMA" -> ANALYSIS_CONFIG_SCHEMA
      [] name = "Melbanks.CONFIG_SCHEMA" -> MELBANKS_CONFIG_SCHEMA
      [] name = "WLED_CONFIG_SCHEMA" -> WLED_CONFIG_SCHEMA
      [] OTHER -> CORE_CONFIG_SCHEMA

\* The (schema, node) pairs validate_and_trim_config is called with.
TrimCalls ==
    {<<"AUDIO_CONFIG_SCHEMA", "audio">>,
     <<"AudioAnalysisSource.CONFIG_SCHEMA", "audio">>,
     <<"WLED_CONFIG_SCHEMA", "wled_preferences">>,
     <<"Melbanks.CONFIG_SCHEMA", "melbanks">>,
     <<"CORE_CONFIG_SCHEMA", "core">>}

FragKeys(node) == PERMITTED_KEYS[node] \cup {"user_presets", "bogus"}

FragVals(node) ==
    IF node = "wled_preferences"
    THEN {Scalar(v) : v \in InVals} \cup {Mapping(One("ip", v)) : v \in InVals}
    ELSE InVals

Frags(node) ==
    UNION {[K -> FragVals(node)] :
              K \in {S \in SUBSET FragKeys(node) : Cardinality(S) <= MaxKeys}}

InitFn ==
    /\ cfg = SchemaApply(CORE_CONFIG_SCHEMA, EmptyMap).val
    /\ audio = "none"
    /\ stopq = 0
    /\ res = Idle
    /\ tasks = NoTasks
    /\ running = "none"
    /\ \/ \E call \in TrimCalls : \E config \in Frags(call[2]) :
             fn = [FnIdle EXCEPT !.pc = "call", !.op = "validate_and_trim_config",
                                 !.schema = call[1], !.node = call[2],
                                 !.config = config]
       \/ \E config \in Frags("core") :
             fn = [FnIdle EXCEPT !.pc = "call", !.op = "check_need_restart",
                                 !.config = config]

ValidateAndTrim ==
    /\ fn.pc = "call"
    /\ fn.op = "validate_and_trim_config"
    /\ LET r == validate_and_trim_config(fn.config, SchemaNamed(fn.schema), fn.node)
       IN  fn' = [fn EXCEPT !.pc = "done", !.err = r.err, !.val = r.val]
    /\ UNCHANGED <<cfg, audio, stopq, res, tasks, running>>

CheckNeedRestart ==
    /\ fn.pc = "call"
    /\ fn.op = "check_need_restart"
    /\ LET r == check_need_restart(fn.config)
       IN  fn' = [fn EXCEPT !.pc = "done", !.err = r.err, !.flag = r.val]
    /\ UNCHANGED <<cfg, audio, stopq, res, tasks, running>>

NextFn == ValidateAndTrim \/ CheckNeedRestart

SpecFn == InitFn /\ [][NextFn]_vars

(***************************************************************************)
(* The handlers as tasks of the event loop.  A task runs its handler one   *)
(* statement at a time; the loop gives control to another task only when   *)
(* the running task stands at an await.                                    *)
(***************************************************************************)
\* AwaitPoints with an await between the merges of update_config.
AwaitPoints_merge(method) ==
    IF method = "PUT"
    THEN {"request.json", "request_success", "invalid_request", "internal_error",
          "merge_melbanks", "merge_core", "merge_wled"}
    ELSE {"request.json", "bare_request_success"}

\* The statements at which a handler awaits: request.json() and the building
\* of its response.  update_config and the loop of get hold no await.
AwaitPoints(method) ==
    IF method = "PUT"
    THEN {"request.json", "request_success", "invalid_request", "internal_error"}
    ELSE {"request.json", "bare_request_success"}

\* The PUT requests of the tasks, each with fragments of several namespaces.
ConcBodies ==
    {Update(Update(Carry("audio", FirstOf("audio")),
                   Carry("melbanks", FirstOf("melbanks"))),
            Update(Carry("wled_preferences", FirstOf("wled_preferences")),
                   FirstOf("core"))),
     Update(Update(Carry("audio", One("min_volume", -1)),
                   Carry("wled_preferences", One("dev2", Scalar(1)))),
            One("global_brightness", MaxVal)),
     Update(Carry("melbanks", One("max_frequencies", -1)),
            Carry("wled_preferences", One("dev2", Scalar(MaxVal)))),
     Update(Carry("audio", FirstOf("audio")), One("bogus", 1))}

\* What the pops of update_config leave of the request: its core keys.
CoreRest(config) ==
    PopRest(PopRest(PopRest(config, "audio"), "wled_preferences"), "melbanks")

\* Lines 226-249: the four validated fragments, or the first error.
Fragments(config) ==
    LET audio1 == validate_and_trim_config(
                      PopValue(config, "audio"), AUDIO_CONFIG_SCHEMA, "audio")
        audio2 == validate_and_trim_config(
                      audio1.val, ANALYSIS_CONFIG_SCHEMA, "audio")
        wled   == validate_and_trim_config(
                      PopValue(config, "wled_preferences"),
                      WLED_CONFIG_SCHEMA, "wled_preferences")
        melb   == validate_and_trim_config(
                      PopValue(config, "melbanks"), MELBANKS_CONFIG_SCHEMA, "melbanks")
        core   == validate_and_trim_config(CoreRest(config), CORE_CONFIG_SCHEMA, "core")
        errs   == <<audio1.err, audio2.err, wled.err, melb.err, core.err>>
        bad    == {i \in DOMAIN errs : errs[i] # "none"}
    IN  [err |-> IF bad = {} THEN "none"
                 ELSE errs[CHOOSE i \in bad : \A j \in bad : i <= j],
         audio |-> audio2.val, wled_preferences |-> wled.val,
         melbanks |-> melb.val, core |-> core.val]

InitConc ==
    /\ cfg = SchemaApply(CORE_CONFIG_SCHEMA, EmptyMap).val
    /\ audio \in {"none", "active"}
    /\ stopq = 0
    /\ res = Idle
    /\ fn = FnIdle
    /\ tasks = NoTasks
    /\ running = "none"

\* Task t may take a step: it holds the loop, or the loop is free.
Holds(t) == running = t \/ running = "none"

\* Task t has taken a step; it keeps the loop unless it now stands at an await.
Run(t, new) ==
    /\ tasks' = [tasks EXCEPT ![t] = new]
    /\ running' = IF new.pc \in AwaitPoints(MethodOf(t)) \cup {"done"}
                  THEN "none" ELSE t

\* Line 184: request.json() returns the request.
PutJson(t) ==
    /\ Holds(t)
    /\ tasks[t].pc = "request.json"
    /\ \E config \in ConcBodies :
         \E order \in Orders(DOMAIN PopValue(config, "wled_preferences")) :
           Run(t, [tasks[t] EXCEPT !.pc = "update_config", !.body = config,
                                   !.order = order])
    /\ UNCHANGED <<cfg, audio, stopq, res, fn>>

\* Lines 226-249: the validations of update_config.
PutValidate(t) ==
    /\ Holds(t)
    /\ tasks[t].pc = "update_config"
    /\ Run(t, [tasks[t] EXCEPT !.pc = IF Fragments(tasks[t].body).err # "none"
                                      THEN "invalid_request" ELSE "merge_audio"])
    /\ UNCHANGED <<cfg, audio, stopq, res, fn>>

\* Lines 251-262: the merges of update_config, one statement a step.
PutMerge(t) ==
    /\ Holds(t)
    /\ LET f == Fragments(tasks[t].body)
           w == wled_merge(cfg["wled_preferences"], f.wled_preferences,
                           tasks[t].order)
       IN  \/ /\ tasks[t].pc = "merge_audio"
              /\ cfg' = SetKey(cfg, "audio", Update(cfg["audio"], f.audio))
              /\ Run(t, [tasks[t] EXCEPT !.pc = "merge_melbanks"])
           \/ /\ tasks[t].pc = "merge_melbanks"
              /\ cfg' = SetKey(cfg, "melbanks", Update(cfg["melbanks"], f.melbanks))
              /\ Run(t, [tasks[t] EXCEPT !.pc = "merge_core"])
           \/ /\ tasks[t].pc = "merge_core"
              /\ cfg' = Update(cfg, f.core)
              /\ Run(t, [tasks[t] EXCEPT !.pc = "merge_wled"])
           \/ /\ tasks[t].pc = "merge_wled"
              /\ cfg' = SetKey(cfg, "wled_preferences", w.val)
              /\ Run(t, [tasks[t] EXCEPT !.pc = IF w.err # "none"
                                                THEN "internal_error" ELSE "notify"])
    /\ UNCHANGED <<audio, stopq, res, fn>>

\* Lines 264-277 and 192-196: the notifiers, the events, save_config and
\* check_need_restart.
PutFinish(t) ==
    /\ Holds(t)
    /\ tasks[t].pc = "notify"
    /\ Run(t, [tasks[t] EXCEPT !.pc =
                  IF audio = "none" /\ DOMAIN Fragments(tasks[t].body).melbanks # {}
                  THEN "internal_error" ELSE "request_success"])
    /\ UNCHANGED <<cfg, audio, stopq, res, fn>>

\* Lines 199-214: the response, and the stop callback after it.
PutRespond(t) ==
    /\ Holds(t)
    /\ tasks[t].pc \in {"request_success", "invalid_request", "internal_error"}
    /\ stopq' = IF /\ tasks[t].pc = "request_success"
                   /\ check_need_restart(CoreRest(tasks[t].body)).val
                THEN stopq + 1 ELSE stopq
    /\ Run(t, [tasks[t] EXCEPT !.pc = "done"])
    /\ UNCHANGED <<cfg, audio, res, fn>>

\* Lines 53-70: the request is read and the keys to send are settled.
GetJson(t) ==
    /\ Holds(t)
    /\ tasks[t].pc = "request.json"
    /\ \E request \in {r \in GetRequests : r.kind \in {"none", "list"}} :
         LET keys0 == request.wanted \cap CORE_CONFIG_KEYS
         IN  Run(t, [tasks[t] EXCEPT !.pc = "read",
                        !.todo = IF keys0 = {} THEN CORE_CONFIG_KEYS ELSE keys0])
    /\ UNCHANGED <<cfg, audio, stopq, res, fn>>

\* Lines 73-83: one turn of the loop over the keys.
GetRead(t) ==
    /\ Holds(t)
    /\ tasks[t].pc = "read"
    /\ \E key \in tasks[t].todo :
         Run(t, [tasks[t] EXCEPT
                    !.seen = SetKey(tasks[t].seen, key, get_entry(cfg, key).val),
                    !.todo = tasks[t].todo \ {key},
                    !.pc = IF tasks[t].todo = {key}
                           THEN "bare_request_success" ELSE "read"])
    /\ UNCHANGED <<cfg, audio, stopq, res, fn>>

\* Line 84: the response.
GetRespond(t) ==
    /\ Holds(t)
    /\ tasks[t].pc = "bare_request_success"
    /\ Run(t, [tasks[t] EXCEPT !.pc = "done"])
    /\ UNCHANGED <<cfg, audio, stopq, res, fn>>

NextConc ==
    \/ \E t \in Writers :
         PutJson(t) \/ PutValidate(t) \/ PutMerge(t) \/ PutFinish(t) \/ PutRespond(t)
    \/ \E t \in Readers : GetJson(t) \/ GetRead(t) \/ GetRespond(t)

SpecConc == InitConc /\ [][NextConc]_vars

(***************************************************************************)
(* Properties                                                              *)
(***************************************************************************)
Has(log, e) == \E i \in DOMAIN log : log[i] = e
Count(log, e) == Cardinality({i \in DOMAIN log : log[i] = e})
\* Every e in the log has a d somewhere before it.
Precedes(log, d, e) ==
    \A j \in DOMAIN log : log[j] = e => \E i \in 1..(j - 1) : log[i] = d

\* The fragment a request carries for a namespace ({} when it carries none).
FragOf(body, ns) ==
    IF ns = "core"
    THEN [k \in (DOMAIN body) \ SubKeys |-> body[k]]
    ELSE PopValue(body, ns)

HasUnknownKey(ns, f) ==
    \E k \in DOMAIN f : k \notin PERMITTED_KEYS[ns] /\ k # "user_presets"

\* The schemas a namespace's fragment goes through.
SchemasOf(ns) ==
    CASE ns = "audio" -> {AUDIO_CONFIG_SCHEMA, ANALYSIS_CONFIG_SCHEMA}
      [] ns = "melbanks" -> {MELBANKS_CONFIG_SCHEMA}
      [] ns = "wled_preferences" -> {WLED_CONFIG_SCHEMA}
      [] OTHER -> {CORE_CONFIG_SCHEMA}

\* The fragment has an unknown key or a schema refuses it.
Refused(ns, f) ==
    HasUnknownKey(ns, f) \/ \E sch \in SchemasOf(ns) : ~SchemaApply(sch, f).ok

\* The schema's validated value of every key of an accepted fragment.
Expected(sch, f) == [k \in DOMAIN f |-> SchemaApply(sch, f).val[k]]

PutDone == res.method = "PUT" /\ res.status # "json_decode_error"
PostDone == res.method = "POST" /\ res.status # "json_decode_error"
TrimDone == fn.pc = "done" /\ fn.op = "validate_and_trim_config"

\* C1: a PUT in which the fragment of any one namespace is refused leaves
\* LiveConfig as it was, and nothing is merged, notified, saved or scheduled.
C1_AtomicUpdate ==
    (PutDone /\ \E ns \in Nodes : Refused(ns, FragOf(res.body, ns)))
        => /\ cfg = res.pre
           /\ res.log = <<>>
           /\ res.status = "invalid_request"

\* A PUT carrying an audio fragment that would have been merged beside an
\* unknown core key was refused whole.
C1_Witness ==
    /\ PutDone
    /\ res.body = Update(Carry("audio", FirstOf("audio")), One("bogus", 1))
    /\ "min_volume" \notin DOMAIN res.pre["audio"]
    /\ cfg = res.pre
    /\ res.error = "KeyError"

\* C2: a fragment with a key that is neither permitted nor user_presets is
\* refused whole with an unknown-key error, whatever else it holds, and
\* LiveConfig stays as it was; user_presets by itself is no unknown key.
C2_UnknownKeyRefused ==
    TrimDone =>
        /\ HasUnknownKey(fn.node, fn.config)
              => (fn.err = "KeyError" /\ fn.val = EmptyMap)
        /\ ~HasUnknownKey(fn.node, fn.config) => fn.err # "KeyError"
        /\ DOMAIN fn.config = {"user_presets"} => fn.err # "KeyError"
        /\ cfg = SchemaApply(CORE_CONFIG_SCHEMA, EmptyMap).val

\* An unknown key beside a permitted key with a good value was refused.
C2_Witness ==
    /\ TrimDone
    /\ fn.node = "core"
    /\ fn.config = Update(One("global_brightness", 1), One("bogus", 1))
    /\ fn.err = "KeyError"

\* C3: for a fragment of permitted keys that the schema accepts, the result
\* holds exactly the submitted keys that the schema's output holds, each
\* with the schema's validated value, and no default of a key not submitted.
C3_TrimmedToSubmitted ==
    (/\ TrimDone
     /\ ~HasUnknownKey(fn.node, fn.config)
     /\ SchemaApply(SchemaNamed(fn.schema), fn.config).ok)
        => LET out == SchemaApply(SchemaNamed(fn.schema), fn.config).val
           IN  /\ fn.err = "none"
               /\ DOMAIN fn.val = (DOMAIN fn.config) \cap (DOMAIN out)
               /\ DOMAIN fn.val \subseteq DOMAIN fn.config
               /\ \A k \in DOMAIN fn.val : fn.val[k] = out[k]

\* The core schema defaults scan_on_startup; a fragment without it came
\* back without it, its own key coerced.
C3_Witness ==
    /\ TrimDone
    /\ fn.schema = "CORE_CONFIG_SCHEMA"
    /\ fn.config = One("global_brightness", -1)
    /\ fn.err = "none"
    /\ fn.val = One("global_brightness", 1)
    /\ "scan_on_startup" \in DOMAIN SchemaApply(CORE_CONFIG_SCHEMA, fn.config).val

\* C4: after the merge of a PUT whose fragments were all accepted, every key
\* of the wled_preferences fragment holds the nested merge when the live
\* value was a nested mapping and holds the fragment's value otherwise; the
\* other keys of wled_preferences are as before.
C4_WledMergeOrReplace ==
    (PutDone /\ \A ns \in Nodes : ~Refused(ns, FragOf(res.body, ns)))
        => LET frag == Expected(WLED_CONFIG_SCHEMA,
                                FragOf(res.body, "wled_preferences"))
               old  == res.pre["wled_preferences"]
               new  == cfg["wled_preferences"]
           IN  /\ DOMAIN new = (DOMAIN old) \cup (DOMAIN frag)
               /\ \A k \in DOMAIN frag :
                     new[k] = IF k \in DOMAIN old /\ old[k].isMap /\ frag[k].isMap
                              THEN Mapping(Update(old[k].m, frag[k].m))
                              ELSE frag[k]
               /\ \A k \in (DOMAIN old) \ (DOMAIN frag) : new[k] = old[k]

\* C5: after a PUT whose update_config returned, audio, melbanks and core
\* hold the validated value of every key of their fragment and the previous
\* value of every other key; a namespace without a fragment is as before.
C5_ShallowMerge ==
    (PutDone /\ (res.status = "success" \/ res.error = "OSError"))
        => /\ \A ns \in {"audio", "melbanks"} :
                LET sch  == IF ns = "audio" THEN AUDIO_CONFIG_SCHEMA
                            ELSE MELBANKS_CONFIG_SCHEMA
                    frag == Expected(sch, FragOf(res.body, ns))
                IN  /\ DOMAIN cfg[ns] = (DOMAIN res.pre[ns]) \cup (DOMAIN frag)
                    /\ \A k \in DOMAIN frag : cfg[ns][k] = frag[k]
                    /\ \A k \in (DOMAIN res.pre[ns]) \ (DOMAIN frag) :
                          cfg[ns][k] = res.pre[ns][k]
                    /\ (ns \notin DOMAIN res.body) => cfg[ns] = res.pre[ns]
           /\ LET frag == Expected(CORE_CONFIG_SCHEMA, FragOf(res.body, "core"))
              IN  /\ DOMAIN cfg = (DOMAIN res.pre) \cup (DOMAIN frag)
                  /\ \A k \in DOMAIN frag : cfg[k] = frag[k]
                  /\ \A k \in (DOMAIN res.pre) \ (DOMAIN frag \cup SubKeys) :
                        cfg[k] = res.pre[k]

\* A PUT with a core key and a melbanks fragment, and no audio fragment,
\* changed those two and left a non-empty audio sub-mapping alone.
C5_Witness ==
    /\ PutDone
    /\ res.status = "success"
    /\ DOMAIN res.body = {"scan_on_startup", "melbanks"}
    /\ res.pre["audio"] # EmptyMap
    /\ cfg["audio"] = res.pre["audio"]
    /\ cfg["melbanks"] # res.pre["melbanks"]
    /\ cfg["scan_on_startup"] # res.pre["scan_on_startup"]

RestartDone == fn.pc = "done" /\ fn.op = "check_need_restart" /\ fn.err = "none"

\* C6: check_need_restart is false for an empty trimmed fragment, false when
\* the fragment holds a no-restart key (beside other keys or not), and true
\* exactly when the fragment is not empty and holds no no-restart key.
C6_RestartClassifier ==
    RestartDone =>
        LET keys == DOMAIN fn.config
        IN  /\ keys = {} => ~fn.flag
            /\ keys \cap CORE_CONFIG_KEYS_NO_RESTART # {} => ~fn.flag
            /\ fn.flag <=> (keys # {} /\ keys \cap CORE_CONFIG_KEYS_NO_RESTART = {})

\* A no-restart key beside a key that would restart: no restart.
C6_Witness ==
    /\ RestartDone
    /\ DOMAIN fn.config = {"global_brightness", "scan_on_startup"}
    /\ ~fn.flag

\* C7: a POST or DELETE that replaced LiveConfig took exactly one backup,
\* and took it before the replace; LiveConfig changes on these paths only
\* by that replace.
C7_BackupBeforeReplace ==
    (res.method \in {"POST", "DELETE"} /\ (Has(res.log, "replace") \/ cfg # res.pre))
        => /\ Count(res.log, "create_backup") = 1
           /\ Count(res.log, "replace") = 1
           /\ Precedes(res.log, "create_backup", "replace")

\* A DELETE replaced a LiveConfig that was not the default one.
C7_Witness ==
    /\ res.method = "DELETE"
    /\ Has(res.log, "replace")
    /\ cfg # res.pre

\* C8: a POST whose migration failed answered with the migration error, and
\* no backup was taken, LiveConfig is as before, nothing was saved and no
\* stop callback was queued.
C8_MigrationFailure ==
    (PostDone /\ Has(res.log, "migrate_config failed"))
        => /\ needs_migration(res.body)
           /\ res.status = "internal_error"
           /\ res.error = "migration"
           /\ cfg = res.pre
           /\ ~Has(res.log, "create_backup")
           /\ ~Has(res.log, "replace")
           /\ ~Has(res.log, "save_config")
           /\ ~Has(res.log, "call_soon_threadsafe(stop)")

\* An import tagged with an older version failed to migrate.
C8_Witness ==
    /\ PostDone
    /\ res.body = Tagged(EmptyMap, "1.0")
    /\ Has(res.log, "migrate_config failed")

\* The version the request's tag stands for, 0 - 1 when it has no tag.
TagVersion(body) ==
    IF "configuration_version" \in DOMAIN body
    THEN parse_version(body["configuration_version"])
    ELSE 0 - 1

\* C9: a POST calls the migration exactly when the tag is missing or is not
\* the current version; without a migration its first step is the backup.
C9_MigratesIffOtherVersion ==
    PostDone =>
        LET migrated == Has(res.log, "migrate_config")
                        \/ Has(res.log, "migrate_config failed")
        IN  /\ migrated <=> TagVersion(res.body) # parse_version(CONFIGURATION_VERSION)
            /\ ~migrated => Head(res.log) \in {"create_backup", "create_backup failed"}

\* An import tagged "2.0.0", the current version written another way, was
\* backed up and replaced LiveConfig without a migration.
C9_Witness ==
    /\ PostDone
    /\ res.body = Tagged(EmptyMap, "2.0.0")
    /\ res.log = <<"create_backup", "replace", "save_config",
                   "call_soon_threadsafe(stop)", "request_success">>

\* The core keys of a PUT request call for a restart.
CallsForRestart(body) ==
    LET keys == DOMAIN FragOf(body, "core")
    IN  keys # {} /\ keys \cap CORE_CONFIG_KEYS_NO_RESTART = {}

\* C10: a PUT that succeeded and needs a restart built its success response
\* and only then queued the stop callback, once; no PUT queues the callback
\* before its response, and none runs stop itself.
C10_ResponseBeforeStop ==
    PutDone =>
        /\ (res.status = "success" /\ CallsForRestart(res.body))
              => /\ Len(res.log) >= 2
                 /\ res.log[Len(res.log) - 1] = "request_success"
                 /\ res.log[Len(res.log)] = "call_soon_threadsafe(stop)"
                 /\ Count(res.log, "call_soon_threadsafe(stop)") = 1
        /\ Precedes(res.log, "request_success", "call_soon_threadsafe(stop)")
        /\ ~Has(res.log, "stop")

\* A PUT of scan_on_startup succeeded and queued the stop callback.
C10_Witness ==
    /\ PutDone
    /\ res.status = "success"
    /\ "scan_on_startup" \in DOMAIN res.body
    /\ Has(res.log, "call_soon_threadsafe(stop)")
    /\ stopq = 1

\* C11: a POST or DELETE queues the stop callback only after its success
\* response is built, and never runs stop itself.
C11_StopAfterResponse ==
    res.method \in {"POST", "DELETE"} =>
        /\ Precedes(res.log, "request_success", "call_soon_threadsafe(stop)")
        /\ ~Has(res.log, "stop")

\* C12: an operation that ended with LiveConfig changed and not saved is an
\* operation whose save_config was attempted and failed.
C12_UnsavedOnlyIfSaveFailed ==
    (res.method \in {"PUT", "POST", "DELETE"}
       /\ cfg # res.pre /\ ~Has(res.log, "save_config"))
        => Has(res.log, "save_config failed")

\* C13: a PUT emits BaseConfigUpdateEvent only when its validated core
\* fragment is not empty, and calls the audio and the melbanks notifier only
\* when that namespace's validated fragment is not empty.
C13_NotifyOnlyIfChanged ==
    PutDone =>
        /\ Has(res.log, "BaseConfigUpdateEvent")
              => DOMAIN FragOf(res.body, "core") # {}
        /\ Has(res.log, "audio.update_config")
              => DOMAIN FragOf(res.body, "audio") # {}
        /\ Has(res.log, "melbanks.update_config")
              => DOMAIN FragOf(res.body, "melbanks") # {}

\* LiveConfig after the whole PUT of writer w ran on c.
ApplyWhole(c, w) ==
    put(c, 0, tasks[w].body, FALSE, tasks[w].order, audio, TRUE).cfg

\* LiveConfig after some of the writers ws ran whole, one after the other.
RECURSIVE SerialResults(_, _)
SerialResults(c, ws) ==
    {c} \cup UNION {SerialResults(ApplyWhole(c, w), ws \ {w}) : w \in ws}

\* LiveConfig after all of the writers ws ran whole, one after the other.
RECURSIVE FinalResults(_, _)
FinalResults(c, ws) ==
    IF ws = {} THEN {c}
    ELSE UNION {FinalResults(ApplyWhole(c, w), ws \ {w}) : w \in ws}

\* What a GET sends for the keys of K when LiveConfig is c.
Projection(c, K) == [key \in K |-> get_entry(c, key).val]

Started == {w \in Writers : tasks[w].pc # "request.json"}

\* C14: a PUT between its first and its last merge holds the event loop, so
\* no other task runs then; what a GET has read is what some PUTs, run whole
\* and one after the other, left; and when every task is done LiveConfig is
\* what the PUTs leave when run whole in some order.
C14_NoInterleaving ==
    LET c0 == SchemaApply(CORE_CONFIG_SCHEMA, EmptyMap).val
    IN  /\ \A w \in Writers :
              tasks[w].pc \in {"merge_melbanks", "merge_core", "merge_wled"}
                  => running = w
        /\ \A r \in Readers :
              tasks[r].seen \in {Projection(c, DOMAIN tasks[r].seen) :
                                    c \in SerialResults(c0, Started)}
        /\ (\A t \in Tasks : tasks[t].pc = "done")
              => cfg \in FinalResults(c0, Writers)

\* Two PUTs with different fragments of several namespaces both merged, and
\* a GET between them read all the keys: the first PUT's merge and nothing
\* of the second's.
C14_Witness ==
    LET c0 == SchemaApply(CORE_CONFIG_SCHEMA, EmptyMap).val
    IN  /\ \A t \in Tasks : tasks[t].pc = "done"
        /\ tasks["put1"].body # tasks["put2"].body
        /\ \A w \in Writers : Fragments(tasks[w].body).err = "none"
        /\ DOMAIN tasks["get1"].seen = CORE_CONFIG_KEYS
        /\ tasks["get1"].seen # Projection(c0, CORE_CONFIG_KEYS)
        /\ tasks["get1"].seen # Projection(cfg, CORE_CONFIG_KEYS)

\* Every d in the log stands before every e.
AllBefore(log, d, e) ==
    \A i \in DOMAIN log, j \in DOMAIN log : (log[i] = d /\ log[j] = e) => i < j

Mutation == res.method \in {"PUT", "POST", "DELETE"}

\* C15: an operation that reports success called save_config once, after its
\* merge or replace (so with LiveConfig as the operation leaves it) and before
\* the stop callback was queued; no operation queues the callback without a
\* save_config that returned before it.
C15_SavedBeforeStop ==
    Mutation =>
        /\ res.status = "success"
              => /\ Count(res.log, "save_config") = 1
                 /\ Has(res.log, "merge") \/ Has(res.log, "replace")
                 /\ AllBefore(res.log, "merge", "save_config")
                 /\ AllBefore(res.log, "replace", "save_config")
                 /\ res.log[Len(res.log)] # "save_config"
        /\ Precedes(res.log, "save_config", "call_soon_threadsafe(stop)")
        /\ Has(res.log, "save_config failed")
              => ~Has(res.log, "call_soon_threadsafe(stop)")

\* An import replaced a different LiveConfig, saved it and queued the stop.
C15_Witness ==
    /\ res.method = "POST"
    /\ res.status = "success"
    /\ cfg # res.pre
    /\ Has(res.log, "save_config")
    /\ Has(res.log, "call_soon_threadsafe(stop)")

\* C16: an operation whose save_config failed reports no success and queues
\* no stop callback; a PUT answers it as an internal error, which is not the
\* answer to an unknown key or a schema failure (invalid_request), and in POST
\* and DELETE the exception leaves the handler.
C16_SaveFailureSurfaced ==
    (Mutation /\ Has(res.log, "save_config failed"))
        => /\ res.status # "success"
           /\ ~Has(res.log, "request_success")
           /\ ~Has(res.log, "call_soon_threadsafe(stop)")
           /\ res.error = "OSError"
           /\ res.method = "PUT"
                 => (res.status = "internal_error" /\ res.status # "invalid_request")
           /\ res.method \in {"POST", "DELETE"} => res.status = "unhandled"

\* A PUT merged a melbanks fragment and its save_config failed.
C16_Witness ==
    /\ PutDone
    /\ "melbanks" \in DOMAIN res.body
    /\ cfg # res.pre
    /\ res.log[Len(res.log)] = "save_config failed"
    /\ res.status = "internal_error"

\* The import as the schemas of post meet it: migrated when that is needed.
Imported(body) == IF needs_migration(body) THEN migrate_config(body) ELSE body

\* The schema post applies to a namespace's sub-mapping.
ImportSchema(ns) ==
    CASE ns = "audio" -> AUDIO_CONFIG_SCHEMA
      [] ns = "melbanks" -> MELBANKS_CONFIG_SCHEMA
      [] ns = "wled_preferences" -> WLED_CONFIG_SCHEMA
      [] OTHER -> CORE_CONFIG_SCHEMA

ImportRefused(body) ==
    \E ns \in Nodes : ~SchemaApply(ImportSchema(ns), FragOf(Imported(body), ns)).ok

\* C17: a POST with a malformed body, or with a sub-mapping that its schema
\* refuses, ends with an error, LiveConfig as before, nothing saved and no
\* stop callback queued, the backup taken or not.
C17_ImportRefused ==
    (res.method = "POST"
       /\ (res.status = "json_decode_error" \/ ImportRefused(res.body)))
        => /\ res.status \in {"json_decode_error", "internal_error", "unhandled"}
           /\ cfg = res.pre
           /\ ~Has(res.log, "replace")
           /\ ~Has(res.log, "save_config")
           /\ ~Has(res.log, "save_config failed")
           /\ ~Has(res.log, "call_soon_threadsafe(stop)")

\* An import of an older version was migrated and backed up, and then its
\* melbanks sub-mapping was refused.
C17_Witness ==
    /\ res.method = "POST"
    /\ res.body = Tagged(Carry("melbanks", One("max_frequencies", 0)), "1.0")
    /\ res.log = <<"migrate_config", "create_backup">>
    /\ res.error = "MultipleInvalid"

\* C18: after a successful POST LiveConfig is the core schema's output for
\* the import's core keys with audio, wled_preferences and melbanks set to
\* their schema's output, and nothing else; after a successful DELETE it is
\* the core schema's output for {}; both saved, then queued one stop callback.
C18_WholesaleReplace ==
    (res.method \in {"POST", "DELETE"} /\ res.status = "success")
        => /\ Count(res.log, "call_soon_threadsafe(stop)") = 1
           /\ Count(res.log, "save_config") = 1
           /\ AllBefore(res.log, "save_config", "call_soon_threadsafe(stop)")
           /\ res.method = "DELETE"
                 => cfg = SchemaApply(CORE_CONFIG_SCHEMA, EmptyMap).val
           /\ res.method = "POST"
                 => LET b    == Imported(res.body)
                        core == SchemaApply(CORE_CONFIG_SCHEMA, FragOf(b, "core")).val
                    IN  /\ DOMAIN cfg = (DOMAIN core) \cup SubKeys
                        /\ \A k \in (DOMAIN cfg) \ SubKeys : cfg[k] = core[k]
                        /\ \A ns \in SubKeys :
                              cfg[ns] = SchemaApply(ImportSchema(ns), FragOf(b, ns)).val

\* An import without wled_preferences replaced a LiveConfig that had devices:
\* none of them is left.
C18_Witness ==
    /\ res.method = "POST"
    /\ res.status = "success"
    /\ "wled_preferences" \notin DOMAIN res.body
    /\ res.pre["wled_preferences"] # EmptyMap
    /\ cfg["wled_preferences"] = EmptyMap
    /\ cfg["audio"] = AUDIO_CONFIG_SCHEMA.defaults

\* C19: a successful PUT queues the stop callback at most once, and queues it
\* exactly when its core keys are not empty and none of them is a no-restart
\* key; a PUT of sub-mappings only queues none; and once update_config has
\* returned and save_config succeeded the PUT succeeds: check_need_restart
\* does not fail.
C19_RestartIffCoreCalls ==
    PutDone =>
        /\ res.status = "success"
              => /\ Has(res.log, "merge")
                 /\ Count(res.log, "call_soon_threadsafe(stop)") <= 1
                 /\ Has(res.log, "call_soon_threadsafe(stop)")
                       <=> CallsForRestart(res.body)
                 /\ DOMAIN res.body \subseteq SubKeys
                       => ~Has(res.log, "call_soon_threadsafe(stop)")
        /\ Has(res.log, "save_config") => res.status = "success"
        /\ res.status # "success" => ~Has(res.log, "call_soon_threadsafe(stop)")

\* A PUT of scan_on_startup and of a nested key of an existing device merged
\* both, kept the device's other nested key and queued the stop callback.
C19_Witness ==
    /\ PutDone
    /\ res.status = "success"
    /\ DOMAIN res.body = {"scan_on_startup", "wled_preferences"}
    /\ "dev1" \in DOMAIN res.pre["wled_preferences"]
    /\ cfg["wled_preferences"]["dev1"] =
           Mapping(Update(One("ip", MaxVal), One("timeout", 1)))
    /\ Has(res.log, "call_soon_threadsafe(stop)")

\* C20: a GET that succeeds sends one entry for each requested name that is a
\* known key, or one for every known key when there is no such name; audio,
\* melbanks and wled_preferences are sent as their schema's output for the
\* stored fragment, the other keys as stored; and LiveConfig is as before.
C20_Projection ==
    res.method = "GET" =>
        /\ cfg = res.pre
        /\ res.status = "json_decode_error" <=> res.kind = "malformed"
        /\ res.status = "success" =>
              LET asked == IF res.kind \in {"list", "str"}
                           THEN res.wanted \cap CORE_CONFIG_KEYS ELSE {}
              IN  /\ DOMAIN res.response =
                        IF asked = {} THEN CORE_CONFIG_KEYS ELSE asked
                  /\ \A k \in DOMAIN res.response :
                        res.response[k] =
                            IF k \in SubKeys
                            THEN SchemaApply(ImportSchema(k), cfg[k]).val
                            ELSE cfg[k]

\* A GET of audio and melbanks while the stored audio fragment is empty was
\* sent the defaults of audio.
C20_Witness ==
    /\ res.method = "GET"
    /\ res.status = "success"
    /\ res.wanted = {"audio", "melbanks"}
    /\ cfg["audio"] = EmptyMap
    /\ DOMAIN res.response = {"audio", "melbanks"}
    /\ res.response["audio"] = AUDIO_CONFIG_SCHEMA.defaults

====
